---- MODULE Spec2Model ----
(***************************************************************************)
(* tools/databake.py: read one file, optionally zlib-compress it, and      *)
(* write a C++ fragment (byte array + UTIL_FILE registration) to stdout.   *)
(*                                                                         *)
(* Text is modelled as sequences of one-character strings, standard        *)
(* output as the sequence of the arguments of the out.write calls made so  *)
(* far, byte buffers as sequences over 0..255.  sys.stdout is assumed      *)
(* writable; the file system answers open/read according to fs_status.     *)
(***************************************************************************)
EXTENDS Integers, Sequences, FiniteSets, TLC

\* Longest input file considered, and number of consecutive invocations.
MaxLen == 33
MaxRuns == 2

\* COMPRESS_RATIO_NEEDED = 0.75, kept as the exact fraction 3/4.  For file
\* sizes below 2^51 the float test len(c) / len(u) <= 0.75 is the integer
\* test 4 * len(c) <= 3 * len(u).
COMPRESS_RATIO_NUM == 3
COMPRESS_RATIO_DEN == 4

BYTES_PER_LINE == 16

\* The level argument of zlib.compress(data, 9).
ZLIB_LEVEL == 9

VARIABLES
  argv,             \* sys.argv: <<program, path [, name [, ...]]>>
  fs_status,        \* what the file system does with open/read of the path
  fs_content,       \* the bytes of the file at the path
  DO_COMPRESS,      \* module-level toggle, fixed for the life of a build
  clock,            \* wall-clock time of the invocation (never read)
  run,              \* ordinal of the current invocation
  pc,               \* statement main is about to execute
  filename,         \* parameter of main
  emitted_name,     \* parameter / local of main: [some, val]
  data,             \* local of main
  compressed_data,  \* local of main
  compressed,       \* local of main
  i,                \* loop index of emit_bytes
  out,              \* arguments of the out.write calls so far
  bound,            \* locals of main that have been assigned
  error,            \* exception that terminated the process, if any
  prev              \* outcome of the previous invocation: [pc, error, out]

vars == <<argv, fs_status, fs_content, DO_COMPRESS, clock, run, pc, filename,
          emitted_name, data, compressed_data, compressed, i, out, bound,
          error, prev>>

----------------------------------------------------------------------------
\* zlib.compress(d, 9) of zlib 1.2.13, tabulated on the input family: for
\* every length 0..34 the buffers of zeros, 0,1,2,..., "abab...",
\* a period-5 and a period-7 pattern.  Each row is <<input, output>>.
ZlibTable ==
  {
    <<<<>>,
      <<120,218,3,0,0,0,0,1>>>>,
    <<<<0>>,
      <<120,218,99,0,0,0,1,0,1>>>>,
    <<<<97>>,
      <<120,218,75,4,0,0,98,0,98>>>>,
    <<<<200>>,
      <<120,218,59,1,0,0,201,0,201>>>>,
    <<<<227>>,
      <<120,218,123,12,0,0,228,0,228>>>>,
    <<<<0,0>>,
      <<120,218,99,96,0,0,0,2,0,1>>>>,
    <<<<0,1>>,
      <<120,218,99,96,4,0,0,3,0,2>>>>,
    <<<<97,98>>,
      <<120,218,75,76,2,0,1,38,0,196>>>>,
    <<<<200,207>>,
      <<120,218,59,113,30,0,2,97,1,152>>>>,
    <<<<227,234>>,
      <<120,218,123,252,10,0,2,178,1,206>>>>,
    <<<<0,0,0>>,
      <<120,218,99,96,96,0,0,0,3,0,1>>>>,
    <<<<0,1,2>>,
      <<120,218,99,96,100,2,0,0,7,0,4>>>>,
    <<<<97,98,97>>,
      <<120,218,75,76,74,4,0,2,75,1,37>>>>,
    <<<<200,207,214>>,
      <<120,218,59,113,254,26,0,4,207,2,110>>>>,
    <<<<227,234,241>>,
      <<120,218,123,252,234,35,0,5,113,2,191>>>>,
    <<<<0,0,0,0>>,
      <<120,218,99,96,96,96,0,0,0,4,0,1>>>>,
    <<<<0,1,2,3>>,
      <<120,218,99,96,100,98,6,0,0,14,0,7>>>>,
    <<<<97,98,97,98>>,
      <<120,218,75,76,74,76,2,0,3,210,1,135>>>>,
    <<<<200,207,214,221>>,
      <<120,218,59,113,254,218,93,0,8,26,3,75>>>>,
    <<<<227,234,241,248>>,
      <<120,218,123,252,234,227,15,0,9,40,3,183>>>>,
    <<<<0,0,0,0,0>>,
      <<120,218,99,96,0,2,0,0,5,0,1>>>>,
    <<<<0,1,2,3,4>>,
      <<120,218,99,96,100,98,102,1,0,0,25,0,11>>>>,
    <<<<97,98,97,98,97>>,
      <<120,218,75,76,74,76,74,4,0,5,186,1,232>>>>,
    <<<<200,207,214,221,228>>,
      <<120,218,59,113,254,218,221,39,0,12,73,4,47>>>>,
    <<<<227,234,241,248,255>>,
      <<120,218,123,252,234,227,143,255,0,13,222,4,182>>>>,
    <<<<0,0,0,0,0,0>>,
      <<120,218,99,96,0,1,0,0,6,0,1>>>>,
    <<<<0,1,2,3,4,5>>,
      <<120,218,99,96,100,98,102,97,5,0,0,41,0,16>>>>,
    <<<<97,98,97,98,97,98>>,
      <<120,218,75,76,74,4,66,0,8,4,2,74>>>>,
    <<<<200,207,214,221,228,200>>,
      <<120,218,59,113,254,218,221,39,39,0,17,64,4,247>>>>,
    <<<<227,234,241,248,255,6>>,
      <<120,218,123,252,234,227,143,255,108,0,18,154,4,188>>>>,
    <<<<0,0,0,0,0,0,0>>,
      <<120,218,99,96,0,3,0,0,7,0,1>>>>,
    <<<<0,1,2,3,4,5,6>>,
      <<120,218,99,96,100,98,102,97,101,3,0,0,63,0,22>>>>,
    <<<<97,98,97,98,97,98,97>>,
      <<120,218,75,76,74,4,65,0,10,175,2,171>>>>,
    <<<<200,207,214,221,228,200,207>>,
      <<120,218,59,113,254,218,221,39,39,206,3,0,23,6,5,198>>>>,
    <<<<227,234,241,248,255,6,13>>,
      <<120,218,123,252,234,227,143,255,108,188,0,23,99,4,201>>>>,
    <<<<0,0,0,0,0,0,0,0>>,
      <<120,218,99,96,128,0,0,0,8,0,1>>>>,
    <<<<0,1,2,3,4,5,6,7>>,
      <<120,218,99,96,100,98,102,97,101,99,7,0,0,92,0,29>>>>,
    <<<<97,98,97,98,97,98,97,98>>,
      <<120,218,75,76,74,4,67,0,13,188,3,13>>>>,
    <<<<200,207,214,221,228,200,207,214>>,
      <<120,218,59,113,254,218,221,39,39,206,95,3,0,29,162,6,156>>>>,
    <<<<227,234,241,248,255,6,13,227>>,
      <<120,218,123,252,234,227,143,255,108,188,143,1,29,15,5,172>>>>,
    <<<<0,0,0,0,0,0,0,0,0>>,
      <<120,218,99,96,128,2,0,0,9,0,1>>>>,
    <<<<0,1,2,3,4,5,6,7,8>>,
      <<120,218,99,96,100,98,102,97,101,99,231,0,0,0,129,0,37>>>>,
    <<<<97,98,97,98,97,98,97,98,97>>,
      <<120,218,75,76,74,132,64,0,17,42,3,110>>>>,
    <<<<200,207,214,221,228,200,207,214,221>>,
      <<120,218,59,113,254,218,221,39,39,128,4,0,37,27,7,121>>>>,
    <<<<227,234,241,248,255,6,13,227,234>>,
      <<120,218,123,252,234,227,143,255,108,188,143,95,1,0,35,165,6,150>>>>,
    <<<<0,0,0,0,0,0,0,0,0,0>>,
      <<120,218,99,96,128,1,0,0,10,0,1>>>>,
    <<<<0,1,2,3,4,5,6,7,8,9>>,
      <<120,218,99,96,100,98,102,97,101,99,231,224,4,0,0,175,0,46>>>>,
    <<<<97,98,97,98,97,98,97,98,97,98>>,
      <<120,218,75,76,74,132,66,0,20,250,3,208>>>>,
    <<<<200,207,214,221,228,200,207,214,221,228>>,
      <<120,218,59,113,254,218,221,39,39,64,4,0,45,120,8,93>>>>,
    <<<<227,234,241,248,255,6,13,227,234,241>>,
      <<120,218,123,252,234,227,143,255,108,188,143,95,125,4,0,43,44,7,135>>>>,
    <<<<0,0,0,0,0,0,0,0,0,0,0>>,
      <<120,218,99,96,128,3,0,0,11,0,1>>>>,
    <<<<0,1,2,3,4,5,6,7,8,9,10>>,
      <<120,218,99,96,100,98,102,97,101,99,231,224,228,2,0,0,231,0,56>>>>,
    <<<<97,98,97,98,97,98,97,98,97,98,97>>,
      <<120,218,75,76,74,132,65,0,25,43,4,49>>>>,
    <<<<200,207,214,221,228,200,207,214,221,228,200>>,
      <<120,218,59,113,254,218,221,39,39,192,4,0,54,157,9,37>>>>,
    <<<<227,234,241,248,255,6,13,227,234,241,248>>,
      <<120,218,123,252,234,227,143,255,108,188,143,129,20,0,51,171,8,127>>>>,
    <<<<0,0,0,0,0,0,0,0,0,0,0,0>>,
      <<120,218,99,96,64,0,0,0,12,0,1>>>>,
    <<<<0,1,2,3,4,5,6,7,8,9,10,11>>,
      <<120,218,99,96,100,98,102,97,101,99,231,224,228,226,6,0,1,42,0,67>>>>,
    <<<<97,98,97,98,97,98,97,98,97,98,97,98>>,
      <<120,218,75,76,74,132,67,0,29,190,4,147>>>>,
    <<<<200,207,214,221,228,200,207,214,221,228,200,207>>,
      <<120,218,59,113,254,218,221,39,39,32,4,0,64,145,9,244>>>>,
    <<<<227,234,241,248,255,6,13,227,234,241,248,255>>,
      <<120,218,123,252,234,227,143,255,108,188,143,65,20,0,61,41,9,126>>>>,
    <<<<0,0,0,0,0,0,0,0,0,0,0,0,0>>,
      <<120,218,99,96,64,2,0,0,13,0,1>>>>,
    <<<<0,1,2,3,4,5,6,7,8,9,10,11,12>>,
      <<120,218,99,96,100,98,102,97,101,99,231,224,228,226,230,1,0,1,121,0,79>>>>,
    <<<<97,98,97,98,97,98,97,98,97,98,97,98,97>>,
      <<120,218,75,76,74,68,64,0,34,178,4,244>>>>,
    <<<<200,207,214,221,228,200,207,214,221,228,200,207,214>>,
      <<120,218,59,113,254,218,221,39,39,160,4,0,75,91,10,202>>>>,
    <<<<227,234,241,248,255,6,13,227,234,241,248,255,6>>,
      <<120,218,123,252,234,227,143,255,108,188,143,193,20,0,70,173,9,132>>>>,
    <<<<0,0,0,0,0,0,0,0,0,0,0,0,0,0>>,
      <<120,218,99,96,64,6,0,0,14,0,1>>>>,
    <<<<0,1,2,3,4,5,6,7,8,9,10,11,12,13>>,
      <<120,218,99,96,100,98,102,97,101,99,231,224,228,226,230,225,5,0,1,213,0,92>>>>,
    <<<<97,98,97,98,97,98,97,98,97,98,97,98,97,98>>,
      <<120,218,75,76,74,68,130,0,40,8,5,86>>>>,
    <<<<200,207,214,221,228,200,207,214,221,228,200,207,214,221>>,
      <<120,218,59,113,254,218,221,39,39,96,4,0,87,2,11,167>>>>,
    <<<<227,234,241,248,255,6,13,227,234,241,248,255,6,13>>,
      <<120,218,123,252,234,227,143,255,108,188,143,33,20,0,80,62,9,145>>>>,
    <<<<0,0,0,0,0,0,0,0,0,0,0,0,0,0,0>>,
      <<120,218,99,96,64,1,0,0,15,0,1>>>>,
    <<<<0,1,2,3,4,5,6,7,8,9,10,11,12,13,14>>,
      <<120,218,99,96,100,98,102,97,101,99,231,224,228,226,230,225,229,3,0,2,63,0,106>>>>,
    <<<<97,98,97,98,97,98,97,98,97,98,97,98,97,98,97>>,
      <<120,218,75,76,74,68,134,0,45,191,5,183>>>>,
    <<<<200,207,214,221,228,200,207,214,221,228,200,207,214,221,228>>,
      <<120,218,59,113,254,218,221,39,39,224,4,0,99,141,12,139>>>>,
    <<<<227,234,241,248,255,6,13,227,234,241,248,255,6,13,227>>,
      <<120,218,123,252,234,227,143,255,108,188,143,161,20,0,90,178,10,116>>>>,
    <<<<0,0,0,0,0,0,0,0,0,0,0,0,0,0,0,0>>,
      <<120,218,99,96,64,5,0,0,16,0,1>>>>,
    <<<<0,1,2,3,4,5,6,7,8,9,10,11,12,13,14,15>>,
      <<120,218,99,96,100,98,102,97,101,99,231,224,228,226,230,225,229,227,7,0,2,184,0,121>>>>,
    <<<<97,98,97,98,97,98,97,98,97,98,97,98,97,98,97,98>>,
      <<120,218,75,76,74,68,129,0,51,216,6,25>>>>,
    <<<<200,207,214,221,228,200,207,214,221,228,200,207,214,221,228,200>>,
      <<120,218,59,113,254,218,221,39,39,16,4,0,112,224,13,83>>>>,
    <<<<227,234,241,248,255,6,13,227,234,241,248,255,6,13,227,234>>,
      <<120,218,123,252,234,227,143,255,108,188,143,97,20,0,102,16,11,94>>>>,
    <<<<0,0,0,0,0,0,0,0,0,0,0,0,0,0,0,0,0>>,
      <<120,218,99,96,64,3,0,0,17,0,1>>>>,
    <<<<0,1,2,3,4,5,6,7,8,9,10,11,12,13,14,15,16>>,
      <<120,218,99,96,100,98,102,97,101,99,231,224,228,226,230,225,229,227,23,0,0,3,65,0,137>>>>,
    <<<<97,98,97,98,97,98,97,98,97,98,97,98,97,98,97,98,97>>,
      <<120,218,75,76,74,68,133,0,58,82,6,122>>>>,
    <<<<200,207,214,221,228,200,207,214,221,228,200,207,214,221,228,200,207>>,
      <<120,218,59,113,254,218,221,39,39,144,8,0,127,2,14,34>>>>,
    <<<<227,234,241,248,255,6,13,227,234,241,248,255,6,13,227,234,241>>,
      <<120,218,123,252,234,227,143,255,108,188,143,225,20,0,114,95,12,79>>>>,
    <<<<0,0,0,0,0,0,0,0,0,0,0,0,0,0,0,0,0,0>>,
      <<120,218,99,96,64,7,0,0,18,0,1>>>>,
    <<<<0,1,2,3,4,5,6,7,8,9,10,11,12,13,14,15,16,17>>,
      <<120,218,99,96,100,98,102,97,101,99,231,224,228,226,230,225,229,227,23,16,4,0,3,219,0,154>>>>,
    <<<<97,98,97,98,97,98,97,98,97,98,97,98,97,98,97,98,97,98>>,
      <<120,218,75,76,74,68,131,0,65,46,6,220>>>>,
    <<<<200,207,214,221,228,200,207,214,221,228,200,207,214,221,228,200,207,214>>,
      <<120,218,59,113,254,218,221,39,39,144,9,0,141,250,14,248>>>>,
    <<<<227,234,241,248,255,6,13,227,234,241,248,255,6,13,227,234,241,248>>,
      <<120,218,123,252,234,227,143,255,108,188,143,17,20,0,127,166,13,71>>>>,
    <<<<0,0,0,0,0,0,0,0,0,0,0,0,0,0,0,0,0,0,0>>,
      <<120,218,99,96,192,0,0,0,19,0,1>>>>,
    <<<<0,1,2,3,4,5,6,7,8,9,10,11,12,13,14,15,16,17,18>>,
      <<120,218,99,96,100,98,102,97,101,99,231,224,228,226,230,225,229,227,23,16,20,2,0,4,135,0,172>>>>,
    <<<<97,98,97,98,97,98,97,98,97,98,97,98,97,98,97,98,97,98,97>>,
      <<120,218,75,76,74,68,135,0,72,107,7,61>>>>,
    <<<<200,207,214,221,228,200,207,214,221,228,200,207,214,221,228,200,207,214,221>>,
      <<120,218,59,113,254,218,221,39,39,80,8,0,157,207,15,213>>>>,
    <<<<227,234,241,248,255,6,13,227,234,241,248,255,6,13,227,234,241,248,255>>,
      <<120,218,123,252,234,227,143,255,108,188,143,145,40,0,141,236,14,70>>>>,
    <<<<0,0,0,0,0,0,0,0,0,0,0,0,0,0,0,0,0,0,0,0>>,
      <<120,218,99,96,192,4,0,0,20,0,1>>>>,
    <<<<0,1,2,3,4,5,6,7,8,9,10,11,12,13,14,15,16,17,18,19>>,
      <<120,218,99,96,100,98,102,97,101,99,231,224,228,226,230,225,229,227,23,16,20,18,6,0,5,70,0,191>>>>,
    <<<<97,98,97,98,97,98,97,98,97,98,97,98,97,98,97,98,97,98,97,98>>,
      <<120,218,75,76,74,196,128,0,80,10,7,159>>>>,
    <<<<200,207,214,221,228,200,207,214,221,228,200,207,214,221,228,200,207,214,221,228>>,
      <<120,218,59,113,254,218,221,39,39,80,9,0,174,136,16,185>>>>,
    <<<<227,234,241,248,255,6,13,227,234,241,248,255,6,13,227,234,241,248,255,6>>,
      <<120,218,123,252,234,227,143,255,108,188,143,145,41,0,156,56,14,76>>>>,
    <<<<0,0,0,0,0,0,0,0,0,0,0,0,0,0,0,0,0,0,0,0,0>>,
      <<120,218,99,96,192,2,0,0,21,0,1>>>>,
    <<<<0,1,2,3,4,5,6,7,8,9,10,11,12,13,14,15,16,17,18,19,20>>,
      <<120,218,99,96,100,98,102,97,101,99,231,224,228,226,230,225,229,227,23,16,20,18,22,1,0,6,25,0,211>>>>,
    <<<<97,98,97,98,97,98,97,98,97,98,97,98,97,98,97,98,97,98,97,98,97>>,
      <<120,218,75,76,74,196,132,0,88,10,8,0>>>>,
    <<<<200,207,214,221,228,200,207,214,221,228,200,207,214,221,228,200,207,214,221,228,200>>,
      <<120,218,59,113,254,218,221,39,39,208,8,0,192,9,17,129>>>>,
    <<<<227,234,241,248,255,6,13,227,234,241,248,255,6,13,227,234,241,248,255,6,13>>,
      <<120,218,123,252,234,227,143,255,108,188,143,81,40,0,170,145,14,89>>>>,
    <<<<0,0,0,0,0,0,0,0,0,0,0,0,0,0,0,0,0,0,0,0,0,0>>,
      <<120,218,99,96,192,6,0,0,22,0,1>>>>,
    <<<<0,1,2,3,4,5,6,7,8,9,10,11,12,13,14,15,16,17,18,19,20,21>>,
      <<120,218,99,96,100,98,102,97,101,99,231,224,228,226,230,225,229,227,23,16,20,18,22,17,5,0,7,1,0,232>>>>,
    <<<<97,98,97,98,97,98,97,98,97,98,97,98,97,98,97,98,97,98,97,98,97,98>>,
      <<120,218,75,76,74,196,2,1,96,108,8,98>>>>,
    <<<<200,207,214,221,228,200,207,214,221,228,200,207,214,221,228,200,207,214,221,228,200,207>>,
      <<120,218,59,113,254,218,221,39,39,208,9,0,210,89,18,80>>>>,
    <<<<227,234,241,248,255,6,13,227,234,241,248,255,6,13,227,234,241,248,255,6,13,227>>,
      <<120,218,123,252,234,227,143,255,108,188,143,81,41,0,185,205,15,60>>>>,
    <<<<0,0,0,0,0,0,0,0,0,0,0,0,0,0,0,0,0,0,0,0,0,0,0>>,
      <<120,218,99,96,192,10,0,0,23,0,1>>>>,
    <<<<0,1,2,3,4,5,6,7,8,9,10,11,12,13,14,15,16,17,18,19,20,21,22>>,
      <<120,218,99,96,100,98,102,97,101,99,231,224,228,226,230,225,229,227,23,16,20,18,22,17,21,3,0,7,255,0,254>>>>,
    <<<<97,98,97,98,97,98,97,98,97,98,97,98,97,98,97,98,97,98,97,98,97,98,97>>,
      <<120,218,75,76,74,196,6,1,105,47,8,195>>>>,
    <<<<200,207,214,221,228,200,207,214,221,228,200,207,214,221,228,200,207,214,221,228,200,207,214>>,
      <<120,218,59,113,254,218,221,39,39,48,8,0,229,127,19,38>>>>,
    <<<<227,234,241,248,255,6,13,227,234,241,248,255,6,13,227,234,241,248,255,6,13,227,234>>,
      <<120,218,123,252,234,227,143,255,108,188,143,209,40,0,201,243,16,38>>>>,
    <<<<0,0,0,0,0,0,0,0,0,0,0,0,0,0,0,0,0,0,0,0,0,0,0,0>>,
      <<120,218,99,96,192,14,0,0,24,0,1>>>>,
    <<<<0,1,2,3,4,5,6,7,8,9,10,11,12,13,14,15,16,17,18,19,20,21,22,23>>,
      <<120,218,99,96,100,98,102,97,101,99,231,224,228,226,230,225,229,227,23,16,20,18,22,17,21,19,7,0,9,20,1,21>>>>,
    <<<<97,98,97,98,97,98,97,98,97,98,97,98,97,98,97,98,97,98,97,98,97,98,97,98>>,
      <<120,218,75,76,74,196,10,1,114,84,9,37>>>>,
    <<<<200,207,214,221,228,200,207,214,221,228,200,207,214,221,228,200,207,214,221,228,200,207,214,221>>,
      <<120,218,59,113,254,218,221,39,39,48,9,0,249,130,20,3>>>>,
    <<<<227,234,241,248,255,6,13,227,234,241,248,255,6,13,227,234,241,248,255,6,13,227,234,241>>,
      <<120,218,123,252,234,227,143,255,108,188,143,209,41,0,219,10,17,23>>>>,
    <<<<0,0,0,0,0,0,0,0,0,0,0,0,0,0,0,0,0,0,0,0,0,0,0,0,0>>,
      <<120,218,99,96,192,1,0,0,25,0,1>>>>,
    <<<<0,1,2,3,4,5,6,7,8,9,10,11,12,13,14,15,16,17,18,19,20,21,22,23,24>>,
      <<120,218,99,96,100,98,102,97,101,99,231,224,228,226,230,225,229,227,23,16,20,18,22,17,21,19,151,0,0,10,65,1,45>>>>,
    <<<<97,98,97,98,97,98,97,98,97,98,97,98,97,98,97,98,97,98,97,98,97,98,97,98,97>>,
      <<120,218,75,76,74,196,14,1,123,218,9,134>>>>,
    <<<<200,207,214,221,228,200,207,214,221,228,200,207,214,221,228,200,207,214,221,228,200,207,214,221,228>>,
      <<120,218,59,113,254,218,221,39,39,176,16,0,14,120,20,231>>>>,
    <<<<227,234,241,248,255,6,13,227,234,241,248,255,6,13,227,234,241,248,255,6,13,227,234,241,248>>,
      <<120,218,123,252,234,227,143,255,108,188,143,49,40,0,237,25,18,15>>>>,
    <<<<0,0,0,0,0,0,0,0,0,0,0,0,0,0,0,0,0,0,0,0,0,0,0,0,0,0>>,
      <<120,218,99,96,192,5,0,0,26,0,1>>>>,
    <<<<0,1,2,3,4,5,6,7,8,9,10,11,12,13,14,15,16,17,18,19,20,21,22,23,24,25>>,
      <<120,218,99,96,100,98,102,97,101,99,231,224,228,226,230,225,229,227,23,16,20,18,22,17,21,19,151,144,4,0,11,135,1,70>>>>,
    <<<<97,98,97,98,97,98,97,98,97,98,97,98,97,98,97,98,97,98,97,98,97,98,97,98,97,98>>,
      <<120,218,75,76,74,196,1,1,133,194,9,232>>>>,
    <<<<200,207,214,221,228,200,207,214,221,228,200,207,214,221,228,200,207,214,221,228,200,207,214,221,228,200>>,
      <<120,218,59,113,254,218,221,39,39,176,17,0,36,39,21,175>>>>,
    <<<<227,234,241,248,255,6,13,227,234,241,248,255,6,13,227,234,241,248,255,6,13,227,234,241,248,255>>,
      <<120,218,123,252,234,227,143,255,108,188,143,49,41,0,0,54,19,14>>>>,
    <<<<0,0,0,0,0,0,0,0,0,0,0,0,0,0,0,0,0,0,0,0,0,0,0,0,0,0,0>>,
      <<120,218,99,96,192,9,0,0,27,0,1>>>>,
    <<<<0,1,2,3,4,5,6,7,8,9,10,11,12,13,14,15,16,17,18,19,20,21,22,23,24,25,26>>,
      <<120,218,99,96,100,98,102,97,101,99,231,224,228,226,230,225,229,227,23,16,20,18,22,17,21,19,151,144,148,2,0,12,231,1,96>>>>,
    <<<<97,98,97,98,97,98,97,98,97,98,97,98,97,98,97,98,97,98,97,98,97,98,97,98,97,98,97>>,
      <<120,218,75,76,74,196,5,1,144,11,10,73>>>>,
    <<<<200,207,214,221,228,200,207,214,221,228,200,207,214,221,228,200,207,214,221,228,200,207,214,221,228,200,207>>,
      <<120,218,59,113,254,218,221,39,39,176,18,0,58,165,22,126>>>>,
    <<<<227,234,241,248,255,6,13,227,234,241,248,255,6,13,227,234,241,248,255,6,13,227,234,241,248,255,6>>,
      <<120,218,123,252,234,227,143,255,108,188,143,177,80,0,19,74,19,20>>>>,
    <<<<0,0,0,0,0,0,0,0,0,0,0,0,0,0,0,0,0,0,0,0,0,0,0,0,0,0,0,0>>,
      <<120,218,99,96,192,13,0,0,28,0,1>>>>,
    <<<<0,1,2,3,4,5,6,7,8,9,10,11,12,13,14,15,16,17,18,19,20,21,22,23,24,25,26,27>>,
      <<120,218,99,96,100,98,102,97,101,99,231,224,228,226,230,225,229,227,23,16,20,18,22,17,21,19,151,144,148,146,6,0,14,98,1,123>>>>,
    <<<<97,98,97,98,97,98,97,98,97,98,97,98,97,98,97,98,97,98,97,98,97,98,97,98,97,98,97,98>>,
      <<120,218,75,76,74,196,9,1,154,182,10,171>>>>,
    <<<<200,207,214,221,228,200,207,214,221,228,200,207,214,221,228,200,207,214,221,228,200,207,214,221,228,200,207,214>>,
      <<120,218,59,113,254,218,221,39,39,176,19,0,81,249,23,84>>>>,
    <<<<227,234,241,248,255,6,13,227,234,241,248,255,6,13,227,234,241,248,255,6,13,227,234,241,248,255,6,13>>,
      <<120,218,123,252,234,227,143,255,108,188,143,177,81,0,38,107,19,33>>>>,
    <<<<0,0,0,0,0,0,0,0,0,0,0,0,0,0,0,0,0,0,0,0,0,0,0,0,0,0,0,0,0>>,
      <<120,218,99,96,192,3,0,0,29,0,1>>>>,
    <<<<0,1,2,3,4,5,6,7,8,9,10,11,12,13,14,15,16,17,18,19,20,21,22,23,24,25,26,27,28>>,
      <<120,218,99,96,100,98,102,97,101,99,231,224,228,226,230,225,229,227,23,16,20,18,22,17,21,19,151,144,148,146,150,1,0,15,249,1,151>>>>,
    <<<<97,98,97,98,97,98,97,98,97,98,97,98,97,98,97,98,97,98,97,98,97,98,97,98,97,98,97,98,97>>,
      <<120,218,75,76,74,196,13,1,165,194,11,12>>>>,
    <<<<200,207,214,221,228,200,207,214,221,228,200,207,214,221,228,200,207,214,221,228,200,207,214,221,228,200,207,214,221>>,
      <<120,218,59,113,254,218,221,39,39,112,16,0,106,42,24,49>>>>,
    <<<<227,234,241,248,255,6,13,227,234,241,248,255,6,13,227,234,241,248,255,6,13,227,234,241,248,255,6,13,227>>,
      <<120,218,123,252,234,227,143,255,108,188,143,177,82,0,58,111,20,4>>>>,
    <<<<0,0,0,0,0,0,0,0,0,0,0,0,0,0,0,0,0,0,0,0,0,0,0,0,0,0,0,0,0,0>>,
      <<120,218,99,96,192,7,0,0,30,0,1>>>>,
    <<<<0,1,2,3,4,5,6,7,8,9,10,11,12,13,14,15,16,17,18,19,20,21,22,23,24,25,26,27,28,29>>,
      <<120,218,99,96,100,98,102,97,101,99,231,224,228,226,230,225,229,227,23,16,20,18,22,17,21,19,151,144,148,146,150,145,5,0,17,173,1,180>>>>,
    <<<<97,98,97,98,97,98,97,98,97,98,97,98,97,98,97,98,97,98,97,98,97,98,97,98,97,98,97,98,97,98>>,
      <<120,218,75,76,74,196,3,1,177,48,11,110>>>>,
    <<<<200,207,214,221,228,200,207,214,221,228,200,207,214,221,228,200,207,214,221,228,200,207,214,221,228,200,207,214,221,228>>,
      <<120,218,59,113,254,218,221,39,39,112,17,0,131,63,25,21>>>>,
    <<<<227,234,241,248,255,6,13,227,234,241,248,255,6,13,227,234,241,248,255,6,13,227,234,241,248,255,6,13,227,234>>,
      <<120,218,123,252,234,227,143,255,108,188,143,177,83,0,79,93,20,238>>>>,
    <<<<0,0,0,0,0,0,0,0,0,0,0,0,0,0,0,0,0,0,0,0,0,0,0,0,0,0,0,0,0,0,0>>,
      <<120,218,99,96,192,11,0,0,31,0,1>>>>,
    <<<<0,1,2,3,4,5,6,7,8,9,10,11,12,13,14,15,16,17,18,19,20,21,22,23,24,25,26,27,28,29,30>>,
      <<120,218,99,96,100,98,102,97,101,99,231,224,228,226,230,225,229,227,23,16,20,18,22,17,21,19,151,144,148,146,150,145,149,3,0,19,127,1,210>>>>,
    <<<<97,98,97,98,97,98,97,98,97,98,97,98,97,98,97,98,97,98,97,98,97,98,97,98,97,98,97,98,97,98,97>>,
      <<120,218,75,76,74,196,7,1,188,255,11,207>>>>,
    <<<<200,207,214,221,228,200,207,214,221,228,200,207,214,221,228,200,207,214,221,228,200,207,214,221,228,200,207,214,221,228,200>>,
      <<120,218,59,113,254,218,221,39,39,112,18,0,157,28,25,221>>>>,
    <<<<227,234,241,248,255,6,13,227,234,241,248,255,6,13,227,234,241,248,255,6,13,227,234,241,248,255,6,13,227,234,241>>,
      <<120,218,123,252,234,227,143,255,108,188,143,113,80,0,101,60,21,223>>>>,
    <<<<0,0,0,0,0,0,0,0,0,0,0,0,0,0,0,0,0,0,0,0,0,0,0,0,0,0,0,0,0,0,0,0>>,
      <<120,218,99,96,192,15,0,0,32,0,1>>>>,
    <<<<0,1,2,3,4,5,6,7,8,9,10,11,12,13,14,15,16,17,18,19,20,21,22,23,24,25,26,27,28,29,30,31>>,
      <<120,218,99,96,100,98,102,97,101,99,231,224,228,226,230,225,229,227,23,16,20,18,22,17,21,19,151,144,148,146,150,145,149,147,7,0,21,112,1,241>>>>,
    <<<<97,98,97,98,97,98,97,98,97,98,97,98,97,98,97,98,97,98,97,98,97,98,97,98,97,98,97,98,97,98,97,98>>,
      <<120,218,75,76,74,196,11,1,201,48,12,49>>>>,
    <<<<200,207,214,221,228,200,207,214,221,228,200,207,214,221,228,200,207,214,221,228,200,207,214,221,228,200,207,214,221,228,200,207>>,
      <<120,218,59,113,254,218,221,39,39,112,19,0,183,200,26,172>>>>,
    <<<<227,234,241,248,255,6,13,227,234,241,248,255,6,13,227,234,241,248,255,6,13,227,234,241,248,255,6,13,227,234,241,248>>,
      <<120,218,123,252,234,227,143,255,108,188,143,113,81,0,124,19,22,215>>>>,
    <<<<0,0,0,0,0,0,0,0,0,0,0,0,0,0,0,0,0,0,0,0,0,0,0,0,0,0,0,0,0,0,0,0,0>>,
      <<120,218,99,96,32,0,0,0,33,0,1>>>>,
    <<<<0,1,2,3,4,5,6,7,8,9,10,11,12,13,14,15,16,17,18,19,20,21,22,23,24,25,26,27,28,29,30,31,32>>,
      <<120,218,99,96,100,98,102,97,101,99,231,224,228,226,230,225,229,227,23,16,20,18,22,17,21,19,151,144,148,146,150,145,149,147,87,0,0,23,129,2,17>>>>,
    <<<<97,98,97,98,97,98,97,98,97,98,97,98,97,98,97,98,97,98,97,98,97,98,97,98,97,98,97,98,97,98,97,98,97>>,
      <<120,218,75,76,74,196,15,1,213,194,12,146>>>>,
    <<<<200,207,214,221,228,200,207,214,221,228,200,207,214,221,228,200,207,214,221,228,200,207,214,221,228,200,207,214,221,228,200,207,214>>,
      <<120,218,59,113,254,218,221,39,39,240,16,0,211,74,27,130>>>>,
    <<<<227,234,241,248,255,6,13,227,234,241,248,255,6,13,227,234,241,248,255,6,13,227,234,241,248,255,6,13,227,234,241,248,255>>,
      <<120,218,123,252,234,227,143,255,108,188,143,113,82,0,147,233,23,214>>>>,
    <<<<0,0,0,0,0,0,0,0,0,0,0,0,0,0,0,0,0,0,0,0,0,0,0,0,0,0,0,0,0,0,0,0,0,0>>,
      <<120,218,99,96,32,4,0,0,34,0,1>>>>,
    <<<<0,1,2,3,4,5,6,7,8,9,10,11,12,13,14,15,16,17,18,19,20,21,22,23,24,25,26,27,28,29,30,31,32,33>>,
      <<120,218,99,96,100,98,102,97,101,99,231,224,228,226,230,225,229,227,23,16,20,18,22,17,21,19,151,144,148,146,150,145,149,147,87,80,4,0,25,179,2,50>>>>,
    <<<<97,98,97,98,97,98,97,98,97,98,97,98,97,98,97,98,97,98,97,98,97,98,97,98,97,98,97,98,97,98,97,98,97,98>>,
      <<120,218,75,76,74,36,0,1,226,182,12,244>>>>,
    <<<<200,207,214,221,228,200,207,214,221,228,200,207,214,221,228,200,207,214,221,228,200,207,214,221,228,200,207,214,221,228,200,207,214,221>>,
      <<120,218,59,113,254,218,221,39,39,240,17,0,239,169,28,95>>>>,
    <<<<227,234,241,248,255,6,13,227,234,241,248,255,6,13,227,234,241,248,255,6,13,227,234,241,248,255,6,13,227,234,241,248,255,6>>,
      <<120,218,123,252,234,227,143,255,108,188,143,113,83,0,171,197,23,220>>>>
  }

Files == {row[1] : row \in {r \in ZlibTable : Len(r[1]) <= MaxLen}}

\* a compressor that stamps the time of the run into its header
zlib_compress_mtime(d, level) ==
  IF level = ZLIB_LEVEL /\ \E row \in ZlibTable : row[1] = d
    THEN [(CHOOSE row \in ZlibTable : row[1] = d)[2] EXCEPT ![3] = clock % 256]
    ELSE d

zlib_compress(d, level) ==
  IF level = ZLIB_LEVEL /\ \E row \in ZlibTable : row[1] = d
    THEN (CHOOSE row \in ZlibTable : row[1] = d)[2]
    ELSE d

----------------------------------------------------------------------------
\* Command lines.  Paths and names include a quote and a backslash.
ProgName == <<"d","a","t","a","b","a","k","e",".","p","y">>
Paths == { <<>>, <<"a",".","p","n","g">>, <<"q","\"","\\">> }
Names == { <<>>, <<"l","o","g","o">> }

Argvs ==
  { <<ProgName>> }
    \cup { <<ProgName, p>> : p \in Paths }
    \cup { <<ProgName, p, n>> : p \in Paths, n \in Names }
    \cup { <<ProgName, p, n, <<"x">>>> : p \in Paths \ {<<>>}, n \in Names \ {<<>>} }

\* Python's optional argument: None, or a str.
None == [some |-> FALSE, val |-> <<>>]
Some(s) == [some |-> TRUE, val |-> s]

\* Python truthiness of an optional str: None and "" are both falsy.
truthy(x) == x.some /\ x.val # <<>>

----------------------------------------------------------------------------
\* str(c) and '%d' % n for a non-negative int: decimal, no leading zeros.
Digit(d) ==
  CASE d = 0 -> "0" [] d = 1 -> "1" [] d = 2 -> "2" [] d = 3 -> "3"
    [] d = 4 -> "4" [] d = 5 -> "5" [] d = 6 -> "6" [] d = 7 -> "7"
    [] d = 8 -> "8" [] d = 9 -> "9"

\* oct(c) without its prefix in place of str(c)
RECURSIVE str_octal(_)
str_octal(n) ==
  IF n < 8 THEN <<Digit(n)>> ELSE str_octal(n \div 8) \o <<Digit(n % 8)>>

RECURSIVE str(_)
str(n) == IF n < 10 THEN <<Digit(n)>> ELSE str(n \div 10) \o <<Digit(n % 10)>>

\* len(compressed) / len(uncompressed) raises ZeroDivisionError; the
\* division is only evaluated when DO_COMPRESS is true (short-circuit and).
should_compress_raises(uncompressed, compressed_) ==
  DO_COMPRESS /\ Len(uncompressed) = 0

\* the threshold itself excluded
should_compress_strict(uncompressed, compressed_) ==
  DO_COMPRESS
    /\ COMPRESS_RATIO_DEN * Len(compressed_) < COMPRESS_RATIO_NUM * Len(uncompressed)

should_compress(uncompressed, compressed_) ==
  DO_COMPRESS
    /\ COMPRESS_RATIO_DEN * Len(compressed_) <= COMPRESS_RATIO_NUM * Len(uncompressed)

\* the end-of-line test made before the last-value test
separator_wrap_first(k, n) ==
  IF (k % BYTES_PER_LINE) = BYTES_PER_LINE - 1 THEN <<",", "\n">>
  ELSE IF k = n - 1 THEN <<"\n">>
  ELSE <<",">>

\* What emit_bytes writes after the value at 0-based index k of n values.
separator(k, n) ==
  IF k = n - 1 THEN <<"\n">>
  ELSE IF (k % BYTES_PER_LINE) = BYTES_PER_LINE - 1 THEN <<",", "\n">>
  ELSE <<",">>

\* if emitted_name is None: emitted_name = filename
default_name_none_only(filename_, emitted_name_) ==
  IF ~emitted_name_.some THEN filename_ ELSE emitted_name_.val

\* if not emitted_name: emitted_name = filename
default_name(filename_, emitted_name_) ==
  IF ~truthy(emitted_name_) THEN filename_ ELSE emitted_name_.val

\* The literals main writes.
IncludeText ==
  <<"#","i","n","c","l","u","d","e"," ","<","u","t","i","l","/","s","t","a","t","i","c","f","i","l","e",".","h","p","p",">","\n","\n">>
DeclText ==
  <<"s","t","a","t","i","c"," ","c","o","n","s","t"," ","u","n","s","i","g","n","e","d"," ","c","h","a","r"," ","d","a","t","a","[","]","{","\n">>
CloseText == <<"}",";","\n","\n">>
CompressedMacroText ==
  <<"U","T","I","L","_","C","O","M","P","R","E","S","S","E","D","_","F","I","L","E","(">>
PlainMacroText == <<"U","T","I","L","_","F","I","L","E","(">>

macro_text(compressed_) ==
  IF compressed_ THEN CompressedMacroText ELSE PlainMacroText

\* the name written as a C string literal, quote and backslash escaped
RECURSIVE c_escape(_)
c_escape(s) ==
  IF s = <<>> THEN <<>>
  ELSE (IF Head(s) \in {"\"", "\\"} THEN <<"\\", Head(s)>> ELSE <<Head(s)>>)
         \o c_escape(Tail(s))

registration_text_escaped(name, n) ==
  <<"\"">> \o c_escape(name) \o <<"\"", ",", " ">> \o str(n)
    \o <<",", " ", "d", "a", "t", "a", ")", ";", "\n">>

\* '"%s", %d, data);\n' % (emitted_name, len(data))
registration_text(name, n) ==
  <<"\"">> \o name \o <<"\"", ",", " ">> \o str(n)
    \o <<",", " ", "d", "a", "t", "a", ")", ";", "\n">>

----------------------------------------------------------------------------
\* the first write moved ahead of the read
main_order_write_first ==
  << "default_name", "write_include", "read", "compress", "decide", "select",
     "write_decl", "emit_bytes", "write_close",
     "write_macro", "write_registration" >>

\* the macro name written before the array is closed
main_order_macro_first ==
  << "default_name", "read", "compress", "decide", "select",
     "write_include", "write_decl", "emit_bytes", "write_macro",
     "write_close", "write_registration" >>

\* The statements of main in program order.
main_order ==
  << "default_name", "read", "compress", "decide", "select",
     "write_include", "write_decl", "emit_bytes", "write_close",
     "write_macro", "write_registration" >>

after(label) ==
  LET k == CHOOSE j \in 1..Len(main_order) : main_order[j] = label
  IN IF k = Len(main_order) THEN "done" ELSE main_order[k + 1]

Terminated == pc \in {"done", "failed"}

NoOutcome == [pc |-> "none", error |-> "none", out |-> <<>>]

Init ==
  /\ argv \in Argvs
  /\ fs_status \in {"ok", "open_fails", "read_fails"}
  /\ fs_content \in Files
  \* the empty path names no file, and a file that cannot be read has no
  \* content the program could see
  /\ (Len(argv) < 2 \/ (Len(argv) >= 2 /\ argv[2] = <<>>)) => fs_status = "open_fails"
  /\ fs_status # "ok" => fs_content = <<>>
  /\ DO_COMPRESS \in BOOLEAN
  /\ clock = 0
  /\ run = 1
  /\ pc = "start"
  /\ filename = <<>>
  /\ emitted_name = None
  /\ data = <<>>
  /\ compressed_data = <<>>
  /\ compressed = FALSE
  /\ i = 0
  /\ out = <<>>
  /\ bound = {}
  /\ error = "none"
  /\ prev = NoOutcome

Env == <<argv, fs_status, fs_content, DO_COMPRESS, clock, run, prev>>

\* if len(sys.argv) > 2: main(sys.argv[1], sys.argv[2])
CallMainWithName ==
  /\ pc = "start"
  /\ Len(argv) > 2
  /\ filename' = argv[2]
  /\ emitted_name' = Some(argv[3])
  /\ bound' = {"filename", "emitted_name"}
  /\ pc' = main_order[1]
  /\ UNCHANGED <<Env, data, compressed_data, compressed, i, out, error>>

\* else: main(sys.argv[1])
CallMainDefault ==
  /\ pc = "start"
  /\ Len(argv) = 2
  /\ filename' = argv[2]
  /\ emitted_name' = None
  /\ bound' = {"filename", "emitted_name"}
  /\ pc' = main_order[1]
  /\ UNCHANGED <<Env, data, compressed_data, compressed, i, out, error>>

\* else: main(sys.argv[1]) with no argument: sys.argv[1] raises IndexError
MissingArgument ==
  /\ pc = "start"
  /\ Len(argv) < 2
  /\ pc' = "failed"
  /\ error' = "IndexError"
  /\ UNCHANGED <<Env, filename, emitted_name, data, compressed_data,
                 compressed, i, out, bound>>

DefaultName ==
  /\ pc = "default_name"
  /\ emitted_name' = Some(default_name(filename, emitted_name))
  /\ pc' = after("default_name")
  /\ UNCHANGED <<Env, filename, data, compressed_data, compressed, i, out,
                 bound, error>>

\* data = bytes(filename): open, read, close
BytesRead ==
  /\ pc = "read"
  /\ fs_status = "ok"
  /\ data' = fs_content
  /\ bound' = bound \cup {"data"}
  /\ pc' = after("read")
  /\ UNCHANGED <<Env, filename, emitted_name, compressed_data, compressed, i,
                 out, error>>

BytesOpenFails ==
  /\ pc = "read"
  /\ fs_status = "open_fails"
  /\ pc' = "failed"
  /\ error' = "OSError"
  /\ UNCHANGED <<Env, filename, emitted_name, data, compressed_data,
                 compressed, i, out, bound>>

BytesReadFails ==
  /\ pc = "read"
  /\ fs_status = "read_fails"
  /\ pc' = "failed"
  /\ error' = "OSError"
  /\ UNCHANGED <<Env, filename, emitted_name, data, compressed_data,
                 compressed, i, out, bound>>

Compress ==
  /\ pc = "compress"
  /\ compressed_data' = zlib_compress(data, ZLIB_LEVEL)
  /\ bound' = bound \cup {"compressed_data"}
  /\ pc' = after("compress")
  /\ UNCHANGED <<Env, filename, emitted_name, data, compressed, i, out, error>>

\* compressed = should_compress(data, compressed_data); out = sys.stdout
ShouldCompress ==
  /\ pc = "decide"
  /\ ~should_compress_raises(data, compressed_data)
  /\ compressed' = should_compress(data, compressed_data)
  /\ bound' = bound \cup {"compressed", "out"}
  /\ pc' = after("decide")
  /\ UNCHANGED <<Env, filename, emitted_name, data, compressed_data, i, out,
                 error>>

ShouldCompressDividesByZero ==
  /\ pc = "decide"
  /\ should_compress_raises(data, compressed_data)
  /\ pc' = "failed"
  /\ error' = "ZeroDivisionError"
  /\ UNCHANGED <<Env, filename, emitted_name, data, compressed_data,
                 compressed, i, out, bound>>

\* if compressed: data = compressed_data
SelectBuffer ==
  /\ pc = "select"
  /\ data' = IF compressed THEN compressed_data ELSE data
  /\ pc' = after("select")
  /\ UNCHANGED <<Env, filename, emitted_name, compressed_data, compressed, i,
                 out, bound, error>>

Write(label, text) ==
  /\ pc = label
  /\ out' = Append(out, text)
  /\ pc' = after(label)
  /\ UNCHANGED <<Env, filename, emitted_name, data, compressed_data,
                 compressed, i, bound, error>>

WriteInclude == Write("write_include", IncludeText)

WriteDecl == Write("write_decl", DeclText)

\* one iteration of the loop of emit_bytes
EmitByte ==
  /\ pc = "emit_bytes"
  /\ i < Len(data)
  /\ out' = out \o << str(data[i + 1]), separator(i, Len(data)) >>
  /\ i' = i + 1
  /\ UNCHANGED <<Env, pc, filename, emitted_name, data, compressed_data,
                 compressed, bound, error>>

\* the loop of emit_bytes is exhausted
EmitDone ==
  /\ pc = "emit_bytes"
  /\ i = Len(data)
  /\ pc' = after("emit_bytes")
  /\ UNCHANGED <<Env, filename, emitted_name, data, compressed_data,
                 compressed, i, out, bound, error>>

WriteClose == Write("write_close", CloseText)

WriteMacro == Write("write_macro", macro_text(compressed))

WriteRegistration ==
  Write("write_registration", registration_text(emitted_name.val, Len(data)))

\* The tool is invoked again, later, with the same command line, file and
\* build: a new process, so every global and local starts afresh.
NextRun ==
  /\ Terminated
  /\ run < MaxRuns
  /\ prev' = [pc |-> pc, error |-> error, out |-> out]
  /\ run' = run + 1
  /\ clock' = clock + 1
  /\ pc' = "start"
  /\ filename' = <<>>
  /\ emitted_name' = None
  /\ data' = <<>>
  /\ compressed_data' = <<>>
  /\ compressed' = FALSE
  /\ i' = 0
  /\ out' = <<>>
  /\ bound' = {}
  /\ error' = "none"
  /\ UNCHANGED <<argv, fs_status, fs_content, DO_COMPRESS>>

Next ==
  \/ CallMainWithName
  \/ CallMainDefault
  \/ MissingArgument
  \/ DefaultName
  \/ BytesRead
  \/ BytesOpenFails
  \/ BytesReadFails
  \/ Compress
  \/ ShouldCompress
  \/ ShouldCompressDividesByZero
  \/ SelectBuffer
  \/ WriteInclude
  \/ WriteDecl
  \/ EmitByte
  \/ EmitDone
  \/ WriteClose
  \/ WriteMacro
  \/ WriteRegistration
  \/ NextRun

Spec == Init /\ [][Next]_vars

----------------------------------------------------------------------------
\* Reading the emitted text back: the byte stream on standard output, its
\* lines, the values of the array body and the registration line.

RECURSIVE Flat(_)
Flat(ws) == IF ws = <<>> THEN <<>> ELSE Head(ws) \o Flat(Tail(ws))

\* The fields of s between occurrences of sep: one more than the separators.
Split(s, sep) ==
  LET P == {k \in 1..Len(s) : s[k] = sep}
      n == Cardinality(P)
      pos(j) == IF j = 0 THEN 0
                ELSE IF j = n + 1 THEN Len(s) + 1
                ELSE CHOOSE p \in P : Cardinality({q \in P : q <= p}) = j
  IN [j \in 1..(n + 1) |-> SubSeq(s, pos(j - 1) + 1, pos(j) - 1)]

Count(s, ch) == Cardinality({k \in 1..Len(s) : s[k] = ch})

DecimalDigits == {"0", "1", "2", "3", "4", "5", "6", "7", "8", "9"}

DigitVal(ch) ==
  CASE ch = "0" -> 0 [] ch = "1" -> 1 [] ch = "2" -> 2 [] ch = "3" -> 3
    [] ch = "4" -> 4 [] ch = "5" -> 5 [] ch = "6" -> 6 [] ch = "7" -> 7
    [] ch = "8" -> 8 [] ch = "9" -> 9 [] OTHER -> 0

IsDecimal(s) ==
  /\ Len(s) >= 1
  /\ \A k \in 1..Len(s) : s[k] \in DecimalDigits
  /\ Len(s) > 1 => s[1] # "0"

RECURSIVE DecVal(_)
DecVal(s) ==
  IF s = <<>> THEN 0
  ELSE 10 * DecVal(SubSeq(s, 1, Len(s) - 1)) + DigitVal(s[Len(s)])

StartsWith(s, t) == Len(s) >= Len(t) /\ SubSeq(s, 1, Len(t)) = t
EndsWith(s, t) == Len(s) >= Len(t) /\ SubSeq(s, Len(s) - Len(t) + 1, Len(s)) = t

RECURSIVE TrailingDigits(_)
TrailingDigits(s) ==
  IF s = <<>> \/ s[Len(s)] \notin DecimalDigits THEN <<>>
  ELSE Append(TrailingDigits(SubSeq(s, 1, Len(s) - 1)), s[Len(s)])

IncludeLine ==
  <<"#","i","n","c","l","u","d","e"," ","<","u","t","i","l","/","s","t","a","t","i","c","f","i","l","e",".","h","p","p",">">>
DeclLine ==
  <<"s","t","a","t","i","c"," ","c","o","n","s","t"," ","u","n","s","i","g","n","e","d"," ","c","h","a","r"," ","d","a","t","a","[","]","{">>
CloseLine == <<"}", ";">>
RegSuffix == <<",", " ", "d", "a", "t", "a", ")", ";">>

\* The values on one body line; a comma at the end of the line is the
\* separator before the next line's first value.
LineFields(line) ==
  LET f == Split(line, ",")
  IN IF Len(f) > 1 /\ f[Len(f)] = <<>> THEN SubSeq(f, 1, Len(f) - 1) ELSE f

HasTrailingComma(line) == line # <<>> /\ line[Len(line)] = ","

\* The registration line taken apart from its right end: the suffix
\* ", data);", the digits of the length, ", ", and the quoted name; the
\* macro name runs up to and including the first "(".
RegistrationOf(line) ==
  LET opens == {k \in 1..Len(line) : line[k] = "("}
      open == IF opens = {} THEN Len(line)
              ELSE CHOOSE k \in opens : \A j \in opens : k <= j
      args == SubSeq(line, open + 1, Len(line))
      head == IF EndsWith(args, RegSuffix)
                THEN SubSeq(args, 1, Len(args) - Len(RegSuffix))
                ELSE <<>>
      digits == TrailingDigits(head)
      quoted == IF EndsWith(head, <<",", " ">> \o digits)
                  THEN SubSeq(head, 1, Len(head) - Len(digits) - 2)
                  ELSE <<>>
  IN [ macro |-> SubSeq(line, 1, open),
       name |-> SubSeq(quoted, 2, Len(quoted) - 1),
       length |-> DecVal(digits),
       shape |-> /\ SubSeq(line, 1, open) \in {PlainMacroText, CompressedMacroText}
                 /\ EndsWith(args, RegSuffix)
                 /\ IsDecimal(digits)
                 /\ Len(quoted) >= 2
                 /\ quoted[1] = "\""
                 /\ quoted[Len(quoted)] = "\"" ]

\* The text written by ws taken apart into lines.  The array is closed by
\* the first "};" line after the declaration.  shape: include line, blank
\* line, declaration, body of decimal values, "};", blank line, one more
\* line, and the end of the text right after that line's line break.
FragmentOf(ws) ==
  LET text == Flat(ws)
      lines == Split(text, "\n")
      closers == {k \in 4..Len(lines) : lines[k] = CloseLine}
      closeIdx == IF closers = {} THEN Len(lines) + 1
                  ELSE CHOOSE k \in closers : \A j \in closers : k <= j
      bodyLines == SubSeq(lines, 4, closeIdx - 1)
      bodyFields == Flat([k \in 1..Len(bodyLines) |-> LineFields(bodyLines[k])])
      regLine == IF Len(lines) >= 2 THEN lines[Len(lines) - 1] ELSE <<>>
  IN [ text |-> text,
       lines |-> lines,
       bodyLines |-> bodyLines,
       bodyValues |-> [k \in 1..Len(bodyFields) |-> DecVal(bodyFields[k])],
       bodyCommas |-> Count(Flat(bodyLines), ","),
       shape |-> /\ Len(lines) >= 7
                 /\ lines[1] = IncludeLine
                 /\ lines[2] = <<>>
                 /\ lines[3] = DeclLine
                 /\ closeIdx + 3 = Len(lines)
                 /\ lines[closeIdx + 1] = <<>>
                 /\ lines[Len(lines)] = <<>>
                 /\ \A k \in 1..Len(bodyFields) : IsDecimal(bodyFields[k]),
       reg |-> RegistrationOf(regLine) ]

Fragment == FragmentOf(out)

\* main was entered, and the input could be opened and read
MainCalled == Len(argv) >= 2
Readable == MainCalled /\ fs_status = "ok"

CeilDiv(n, d) == (n + d - 1) \div d

----------------------------------------------------------------------------
\* C1: with DO_COMPRESS disabled, a completed run on an input of L bytes has
\* an array body of exactly L decimal integers, the k-th being the k-th input
\* byte (so within 0..255), separated by exactly L-1 commas when L > 0, and
\* the length argument of the registration call is L.
C1_RawBytesEmitted ==
  (pc = "done" /\ ~DO_COMPRESS) =>
    LET p == Fragment
    IN /\ p.shape
       /\ p.reg.shape
       /\ Len(p.bodyValues) = Len(fs_content)
       /\ p.bodyValues = fs_content
       /\ \A k \in 1..Len(p.bodyValues) : p.bodyValues[k] \in 0..255
       /\ p.bodyCommas = (IF Len(fs_content) > 0 THEN Len(fs_content) - 1 ELSE 0)
       /\ p.reg.length = Len(fs_content)

\* the 18 bytes 0..17 of the worked example, written in full
C1_Witness ==
  /\ pc = "done"
  /\ ~DO_COMPRESS
  /\ fs_content = [k \in 1..18 |-> k - 1]
  /\ Len(Fragment.bodyLines) = 2

\* C2: for a buffer of count bytes, emit_bytes writes ceil(count / 16) line
\* breaks (none for count = 0); every line but the last holds exactly 16
\* values, no line holds more than 16, and the final value is followed by a
\* line break with no comma, also when count is a multiple of 16.
C2_LineBreaks ==
  (pc \in {"write_close", "write_macro", "write_registration", "done"}) =>
    /\ Len(out) >= 2 + 2 * Len(data)
    /\ LET body == Flat(SubSeq(out, 3, 2 + 2 * Len(data)))
           lines == Split(body, "\n")
           n == Len(lines) - 1
       IN /\ n = (IF Len(data) > 0 THEN CeilDiv(Len(data), BYTES_PER_LINE) ELSE 0)
          /\ lines[n + 1] = <<>>
          /\ \A k \in 1..n :
               LET fields == LineFields(lines[k])
               IN /\ Len(fields) <= BYTES_PER_LINE
                  /\ \A f \in 1..Len(fields) : IsDecimal(fields[f])
                  /\ k < n => Len(fields) = BYTES_PER_LINE
                  /\ k < n => HasTrailingComma(lines[k])
                  /\ k = n => ~HasTrailingComma(lines[k])
          /\ Len(data) > 0 =>
               /\ body[Len(body)] = "\n"
               /\ body[Len(body) - 1] \in DecimalDigits

\* a buffer of exactly two full lines
C2_Witness ==
  /\ pc = "done"
  /\ Len(data) = 2 * BYTES_PER_LINE
  /\ LET p == Fragment
     IN /\ Len(p.bodyLines) = 2
        /\ ~HasTrailingComma(p.bodyLines[2])

C4_EmptyFile ==
  (Terminated /\ Readable /\ fs_content = <<>>) =>
    /\ pc = "done"
    /\ LET p == Fragment
       IN /\ p.shape
          /\ p.reg.shape
          /\ p.bodyLines = <<>>
          /\ StartsWith(p.text, IncludeText \o DeclText \o CloseText)
          /\ p.reg.length = 0

\* C5: input inaccessibility is the only error class: main fails only when
\* opening or reading the input fails, and for every readable input (any
\* length, either setting of DO_COMPRESS) main completes and writes the
\* whole fragment.
C5_OnlyInputErrors ==
  /\ (pc = "failed" /\ MainCalled) => (error = "OSError" /\ fs_status # "ok")
  /\ (Terminated /\ Readable) =>
       /\ pc = "done"
       /\ LET p == Fragment IN p.shape /\ p.reg.shape

\* C6: the first write to standard output happens only after the input has
\* been read in full and the compression decision has been made, so a run
\* that ends in a failure has written nothing to standard output.
C6_NoPartialOutput ==
  /\ out # <<>> => {"data", "compressed_data", "compressed"} \subseteq bound
  /\ pc = "failed" => out = <<>>

\* a failure that happens after the input has been read
C6_Witness ==
  /\ pc = "failed"
  /\ "data" \in bound
  /\ out = <<>>

\* C7: a successful run writes, once each and in this order: the include
\* line and a blank line, the array opening, the formatted bytes, "};" and a
\* blank line, then one registration line made of the macro name, the quoted
\* emitted name, the number of values written in the array body, the
\* identifier data and ");"; nothing follows the registration line.
C7_WriteOrder ==
  pc = "done" =>
    LET p == Fragment
    IN /\ p.shape
       /\ p.reg.shape
       /\ \A t \in {IncludeText, DeclText, CloseText} :
            Cardinality({k \in 1..Len(out) : out[k] = t}) = 1
       /\ Cardinality({k \in 1..Len(out) :
                         out[k] \in {PlainMacroText, CompressedMacroText}}) = 1
       /\ Len(out) = 5 + 2 * Len(p.bodyValues)
       /\ out[1] = IncludeText
       /\ out[2] = DeclText
       /\ out[Len(out) - 2] = CloseText
       /\ p.reg.macro = (IF compressed THEN CompressedMacroText ELSE PlainMacroText)
       /\ out[Len(out) - 1] = p.reg.macro
       /\ p.reg.name = emitted_name.val
       /\ p.reg.length = Len(p.bodyValues)
       /\ p.text[Len(p.text)] = "\n"

\* a complete fragment whose array body spans two lines of compressed bytes
C7_Witness ==
  /\ pc = "done"
  /\ compressed
  /\ LET p == Fragment
     IN /\ Len(p.bodyLines) = 2
        /\ p.reg.length = 18

\* C8 as stated: with only a path, the quoted name is the path, character
\* for character; with a second argument, the quoted name is that argument.
C8_NameAsStated ==
  pc = "done" =>
    LET p == Fragment
    IN /\ p.reg.shape
       /\ Len(argv) = 2 => p.reg.name = argv[2]
       /\ Len(argv) > 2 => p.reg.name = argv[3]

\* C8 amended: with only a path, the quoted name is the path, character for
\* character with no escaping; with a non-empty second argument, the quoted
\* name is that argument instead of the path; an empty second argument
\* yields the path.
C8_NameDefaulting ==
  pc = "done" =>
    LET p == Fragment
    IN /\ p.reg.shape
       /\ Len(argv) = 2 => p.reg.name = argv[2]
       /\ (Len(argv) > 2 /\ argv[3] # <<>>) => p.reg.name = argv[3]
       /\ (Len(argv) > 2 /\ argv[3] = <<>>) => p.reg.name = argv[2]

\* a path holding a quote and a backslash, registered under its own name
C8_Witness ==
  /\ pc = "done"
  /\ Len(argv) = 2
  /\ argv[2] = <<"q", "\"", "\\">>
  /\ Fragment.reg.name = <<"q", "\"", "\\">>

C10_EmptyNameIsAbsent ==
  pc = "done" =>
    LET p == Fragment
    IN /\ p.reg.shape
       /\ (Len(argv) > 2 /\ argv[3] = <<>>) => p.reg.name = argv[2]
       /\ p.reg.name = <<>> => argv[2] = <<>>

\* main(path, "") ran to completion
C10_Witness ==
  /\ pc = "done"
  /\ Len(argv) = 3
  /\ argv[3] = <<>>
  /\ LET p == Fragment
     IN /\ p.reg.name = argv[2]
        /\ p.reg.name # <<>>

====
